---- MODULE Spec2Model ----
(***************************************************************************)
(* Model of the I&C billing pipeline of src/app.py:                        *)
(*   load_and_prepare_rows -> build_bills -> Bill pricing properties,      *)
(* of the free-text parser parse_item_description, and of a run of        *)
(* App.generate (validation, load, build, one PDF per bill, two exports).  *)
(*                                                                         *)
(* Representation                                                          *)
(*  - A Python str is a sequence of one-character strings, so that strip,  *)
(*    lower, substring search, the digit regex and code-point comparison   *)
(*    are computed as the code computes them.                              *)
(*  - A missing cell (None / NaN) is the value NULL.                       *)
(*  - Volumes (CBM) are integers counting 0.0001 CBM: 0.18 is 1800.        *)
(*  - The rate and the other cost are integers counting cents; subtotal    *)
(*    and total are integers counting 0.000001 USD (cents * 0.0001 CBM).   *)
(*  - The run folder is two sets: pdf_dir, the files of <run>/PDFs, each    *)
(*    with the position of the bill whose rendering wrote it last, and      *)
(*    run_dir, the names of the export files present in <run>.              *)
(***************************************************************************)
EXTENDS Integers, Sequences, FiniteSets, TLC

VARIABLES sheet, df, bills, pc, text, result,
          rate_var, other_cost_var, idx, pdf_dir, run_dir, message

\* The entry fields of the window, the position of the rendering loop, the
\* run folder and the message box shown.
gui == <<rate_var, other_cost_var, idx, pdf_dir, run_dir, message>>

vars == <<sheet, df, bills, pc, text, result, gui>>

(***************************************************************************)
(* Bounds of the model.                                                    *)
(***************************************************************************)
\* Largest number of data rows of an input sheet.
MaxRows == 3
\* Largest number of tokens concatenated into a text given to the parser.
MaxTokens == 3

(***************************************************************************)
(* Python str helpers.                                                     *)
(***************************************************************************)
NULL == <<"NaN">>

DigitSeq == <<"0", "1", "2", "3", "4", "5", "6", "7", "8", "9">>
UpperSeq == <<"A", "B", "C", "D", "E", "F", "G", "H", "I", "J", "K", "L", "M",
              "N", "O", "P", "Q", "R", "S", "T", "U", "V", "W", "X", "Y", "Z">>
LowerSeq == <<"a", "b", "c", "d", "e", "f", "g", "h", "i", "j", "k", "l", "m",
              "n", "o", "p", "q", "r", "s", "t", "u", "v", "w", "x", "y", "z">>
Whitespace == {" ", "\t", "\n"}

Range(s) == {s[i] : i \in 1..Len(s)}
IndexOf(s, c) == CHOOSE i \in 1..Len(s) : s[i] = c
SetMin(S) == CHOOSE x \in S : \A y \in S : x <= y
SetMax(S) == CHOOSE x \in S : \A y \in S : y <= x

IsDigit(c) == c \in Range(DigitSeq)
DigitVal(c) == IndexOf(DigitSeq, c) - 1

\* ord(c) for the characters of the model's alphabet.
Ord(c) ==
    IF c \in Range(DigitSeq) THEN 47 + IndexOf(DigitSeq, c)
    ELSE IF c \in Range(UpperSeq) THEN 64 + IndexOf(UpperSeq, c)
    ELSE IF c \in Range(LowerSeq) THEN 96 + IndexOf(LowerSeq, c)
    ELSE CASE c = "\t" -> 9
           [] c = "\n" -> 10
           [] c = " " -> 32
           [] c = "," -> 44
           [] c = "-" -> 45
           [] c = "." -> 46
           [] c = "/" -> 47
           [] c = "_" -> 95

\* s.lower()
Lower(s) ==
    [i \in 1..Len(s) |->
        IF s[i] \in Range(UpperSeq) THEN LowerSeq[IndexOf(UpperSeq, s[i])] ELSE s[i]]

\* s.strip()
Strip(s) ==
    LET keep == {i \in 1..Len(s) : s[i] \notin Whitespace}
    IN  IF keep = {} THEN <<>> ELSE SubSeq(s, SetMin(keep), SetMax(keep))

\* sub in s
Contains(s, sub) ==
    \E i \in 1..(Len(s) - Len(sub) + 1) : SubSeq(s, i, i + Len(sub) - 1) = sub

\* re.search(r'\d+', s): the matched text, <<>> when there is no match.
SearchDigits(s) ==
    LET ds == {i \in 1..Len(s) : IsDigit(s[i])}
    IN  IF ds = {} THEN <<>>
        ELSE LET first == SetMin(ds)
                 last  == SetMax({j \in first..Len(s) :
                                     \A k \in first..j : IsDigit(s[k])})
             IN  SubSeq(s, first, last)

\* int(digits)
RECURSIVE IntOf(_)
IntOf(d) ==
    IF d = <<>> THEN 0
    ELSE 10 * IntOf(SubSeq(d, 1, Len(d) - 1)) + DigitVal(d[Len(d)])

\* str(n) for an int n >= 0 (the f-string rendering of a quantity)
RECURSIVE StrOfInt(_)
StrOfInt(n) ==
    IF n < 10 THEN <<DigitSeq[n + 1]>>
    ELSE StrOfInt(n \div 10) \o <<DigitSeq[(n % 10) + 1]>>

\* a < b for two Python str: code-point lexicographic, a proper prefix first.
RECURSIVE StrLessCase(_, _)
StrLessCase(a, b) ==
    IF b = <<>> THEN FALSE
    ELSE IF a = <<>> THEN TRUE
    ELSE IF Ord(a[1]) # Ord(b[1]) THEN Ord(a[1]) < Ord(b[1])
    ELSE StrLessCase(Tail(a), Tail(b))

\* A comparison that ignores case (not what Python does).
StrLessNoCase(a, b) == StrLessCase(Lower(a), Lower(b))

StrLess(a, b) == StrLessCase(a, b)

(***************************************************************************)
(* parse_item_description (src/app.py:55-75).                              *)
(***************************************************************************)
PALLET  == <<"P", "A", "L", "L", "E", "T">>
CARTON  == <<"C", "A", "R", "T", "O", "N">>
BOX     == <<"B", "O", "X">>
kw_pallet == <<"p", "a", "l", "l", "e", "t">>
kw_carton == <<"c", "a", "r", "t", "o", "n">>
kw_box    == <<"b", "o", "x">>
kw_boxes  == <<"b", "o", "x", "e", "s">>

\* The unit chosen with carton tested before pallet.
unit_of_carton_first(value, quantity) ==
    IF Contains(value, kw_carton)
      THEN (IF quantity = 1 THEN CARTON ELSE CARTON \o <<"S">>)
    ELSE IF Contains(value, kw_pallet)
      THEN (IF quantity = 1 THEN PALLET ELSE PALLET \o <<"S">>)
    ELSE IF Contains(value, kw_box) \/ Contains(value, kw_boxes)
      THEN (IF quantity = 1 THEN BOX ELSE BOX \o <<"E", "S">>)
    ELSE (IF quantity = 1 THEN CARTON ELSE CARTON \o <<"S">>)

unit_of(value, quantity) ==
    IF Contains(value, kw_pallet)
      THEN (IF quantity = 1 THEN PALLET ELSE PALLET \o <<"S">>)
    ELSE IF Contains(value, kw_carton)
      THEN (IF quantity = 1 THEN CARTON ELSE CARTON \o <<"S">>)
    ELSE IF Contains(value, kw_box) \/ Contains(value, kw_boxes)
      THEN (IF quantity = 1 THEN BOX ELSE BOX \o <<"E", "S">>)
    ELSE (IF quantity = 1 THEN CARTON ELSE CARTON \o <<"S">>)

parse_item_description(value0) ==
    LET value    == Lower(Strip(value0))
        match    == SearchDigits(value)
        quantity == IF match # <<>> THEN IntOf(match) ELSE 1
    IN  StrOfInt(quantity) \o <<" ">> \o unit_of(value, quantity)

(***************************************************************************)
(* The input sheet: the header row (the column names, already stripped as  *)
(* at src/app.py:127) and the data rows below it.                          *)
(***************************************************************************)
AllColumns == {"INVOICE N0.", "TRACKING N0.", "CONTACT", "CUSTOMER NAME",
               "LOCATION", "QTY PER TRACKING", "CBM PER TRACKING",
               "PRODUCT DESCRIPTION", "RECEIVING DATE"}

\* A cell of the volume column: a number, a text, or empty.
NumCell(n)  == [kind |-> "num",  num |-> n, text |-> <<>>]
TextCell(s) == [kind |-> "text", num |-> 0, text |-> s]
NullCell    == [kind |-> "null", num |-> 0, text |-> <<>>]

\* The empty cell of a column.
Blank(c) == IF c = "CBM PER TRACKING" THEN NullCell ELSE NULL

RawRow(inv, trk, contact, name, loc, qty, cbm, desc, date) ==
    ("INVOICE N0." :> inv) @@ ("TRACKING N0." :> trk) @@ ("CONTACT" :> contact) @@
    ("CUSTOMER NAME" :> name) @@ ("LOCATION" :> loc) @@
    ("QTY PER TRACKING" :> qty) @@ ("CBM PER TRACKING" :> cbm) @@
    ("PRODUCT DESCRIPTION" :> desc) @@ ("RECEIVING DATE" :> date)

\* The fixture of src/create_test_excel_new_format.py:13-23.
KK12345678 == <<"K", "K", "1", "2", "3", "4", "5", "6", "7", "8">>
S987654321 == <<"S", "9", "8", "7", "6", "5", "4", "3", "2", "1">>
S999888777 == <<"S", "9", "9", "9", "8", "8", "8", "7", "7", "7">>
Contact201 == <<"2", "0", "1", "6", "9", "8", "8", "1", "2">>
Contact540 == <<"5", "4", "0", "7", "8", "9", "3", "2", "0">>
Tilly      == <<"T", "i", "l", "l", "y">>
Christian  == <<"C", "h", "r", "i", "s", "t", "i", "a", "n">>
ACCRA_GHANA == <<"A", "C", "C", "R", "A", " ", "G", "H", "A", "N", "A">>
ACCRA      == <<"A", "C", "C", "R", "A">>
LEARNING_MACHINE == <<"L", "E", "A", "R", "N", "I", "N", "G", " ",
                      "M", "A", "C", "H", "I", "N", "E">>
SHOES      == <<"S", "H", "O", "E", "S">>
Date2025   == <<"2", "0", "2", "5", "-", "0", "1", "-", "0", "1">>
Qty1pallet == <<"1", "p", "a", "l", "l", "e", "t">>

FixtureRow1 ==
    RawRow(<<"1", "0", "1">>, KK12345678, Contact201, Tilly, ACCRA_GHANA,
           Qty1pallet, NumCell(1800), LEARNING_MACHINE, Date2025)
FixtureRow2 ==
    RawRow(<<"1", "0", "2">>, S987654321, Contact540, Christian, ACCRA,
           <<"1">>, NumCell(4200), SHOES, Date2025)
FixtureRow3 ==
    RawRow(<<"1", "0", "3">>, S999888777, Contact540, Christian, ACCRA,
           <<"4">>, NumCell(1400), SHOES, Date2025)
FixtureRows == <<FixtureRow1, FixtureRow2, FixtureRow3>>

\* Rows that differ from a fixture row in their identity cells.
IdentityRows ==
    { [FixtureRow2 EXCEPT !["TRACKING N0."] = NULL],
      [FixtureRow1 EXCEPT !["CONTACT"] = NULL],
      [FixtureRow2 EXCEPT !["CONTACT"] = NULL],
      [FixtureRow3 EXCEPT !["CUSTOMER NAME"] = NULL, !["QTY PER TRACKING"] = NULL],
      [FixtureRow1 EXCEPT !["CUSTOMER NAME"] = NULL],
      [FixtureRow2 EXCEPT !["TRACKING N0."] = S999888777],
      [FixtureRow1 EXCEPT !["CUSTOMER NAME"] = <<"b", "o", "b">>,
                          !["QTY PER TRACKING"] = <<"2", " ", "b", "o", "x", "e", "s">>] }

\* The volume cells tried: empty, a text that is no number, the numeric text
\* "0.006", and the numbers (in 0.0001 CBM) -0.5, 0.004, 0.005, 0.01, 0.015.
VolumeCells ==
    { NullCell, TextCell(<<"a", "b", "c">>),
      TextCell(<<"0", ".", "0", "0", "6">>),
      NumCell(-5000), NumCell(40), NumCell(50), NumCell(100), NumCell(150) }

\* Rows of one customer that differ in their volume cell.
VolumeRows == { [FixtureRow3 EXCEPT !["CBM PER TRACKING"] = v] : v \in VolumeCells }

KUMASI == <<"K", "U", "M", "A", "S", "I">>

\* Rows of one customer that differ in their description, name or location
\* cell: a description with a trailing space, none, a blank one and another
\* product; neither name nor location; another name with the location typed
\* as "ACCRA GHANA".
AttributeRows ==
    { [FixtureRow3 EXCEPT !["PRODUCT DESCRIPTION"] = SHOES \o <<" ">>],
      [FixtureRow3 EXCEPT !["PRODUCT DESCRIPTION"] = NULL],
      [FixtureRow3 EXCEPT !["PRODUCT DESCRIPTION"] = <<" ">>],
      [FixtureRow3 EXCEPT !["PRODUCT DESCRIPTION"] = LEARNING_MACHINE],
      [FixtureRow3 EXCEPT !["CUSTOMER NAME"] = NULL, !["LOCATION"] = NULL],
      [FixtureRow3 EXCEPT !["CUSTOMER NAME"] = Tilly, !["LOCATION"] = ACCRA_GHANA] }

\* The header rows tried: complete, or lacking one column.
ColumnChoices ==
    { AllColumns, AllColumns \ {"CONTACT"}, AllColumns \ {"TRACKING N0."} }

RowSeqs(R) == UNION { [1..n -> R] : n \in 0..MaxRows }

\* The defaulted columns of src/app.py:166-183.
DefaultedColumns ==
    { "CONTACT", "CUSTOMER NAME", "LOCATION", "QTY PER TRACKING", "CBM PER TRACKING" }

\* Header rows of the fixture with columns taken away: each column alone,
\* the five defaulted columns together, and every column.
MissingColumnChoices ==
    { AllColumns \ {c} : c \in AllColumns }
      \cup { AllColumns \ DefaultedColumns, {} }

\* A row as read from a sheet whose header is cs: no cell outside cs.
Blanked(row, cs) ==
    [c \in AllColumns |-> IF c \in cs THEN row[c] ELSE Blank(c)]

\* The fixture's rows under a header that lacks columns.
MissingColumnSheets ==
    { [columns |-> cs, rows |-> [i \in DOMAIN rs |-> Blanked(rs[i], cs)]] :
        cs \in MissingColumnChoices, rs \in RowSeqs(Range(FixtureRows)) }

\* The sheets tried: up to MaxRows rows, drawn either from the fixture and
\* its identity variants, or from the volume variants of one customer, or
\* from the attribute variants of one customer, or the fixture's rows under
\* a header that lacks columns.
Sheets ==
    { [columns |-> cs, rows |-> rs] :
        cs \in ColumnChoices,
        rs \in RowSeqs(Range(FixtureRows) \cup IdentityRows)
                 \cup RowSeqs(VolumeRows \cup {FixtureRow3}) }
      \cup { [columns |-> AllColumns, rows |-> rs] :
                rs \in RowSeqs(AttributeRows \cup {FixtureRow3}) }
      \cup MissingColumnSheets

\* A column absent from the header has no cells.
WellFormedSheet(sh) ==
    \A i \in 1..Len(sh.rows) : \A c \in AllColumns \ sh.columns :
        sh.rows[i][c] = Blank(c)

(***************************************************************************)
(* load_and_prepare_rows (src/app.py:117-187).                             *)
(***************************************************************************)
UNKNOWN == <<"U", "N", "K", "N", "O", "W", "N">>

\* pd.to_numeric(cell, errors='coerce') of one cell: a number in 0.0001 CBM,
\* or NaN.  The texts modelled as numeric are the unpadded, optionally signed
\* decimal literals with at most four decimals; any other text is NaN.
NaN == [nan |-> TRUE, v |-> 0]
Number(n) == [nan |-> FALSE, v |-> n]

parse_decimal(s) ==
    LET t      == s
        signed == t # <<>> /\ t[1] \in {"-", "+"}
        body   == IF signed THEN Tail(t) ELSE t
        dots   == {i \in 1..Len(body) : body[i] = "."}
        dot    == IF dots = {} THEN Len(body) + 1 ELSE SetMin(dots)
        whole  == SubSeq(body, 1, dot - 1)
        frac   == SubSeq(body, dot + 1, Len(body))
        pad    == [i \in 1..4 |-> IF i <= Len(frac) THEN frac[i] ELSE "0"]
        ok     == /\ Cardinality(dots) <= 1
                  /\ Len(whole) + Len(frac) > 0
                  /\ Len(frac) <= 4
                  /\ \A i \in 1..Len(body) : IsDigit(body[i]) \/ body[i] = "."
        mag    == IntOf(whole) * 10000 + IntOf(pad)
    IN  IF ~ok THEN NaN
        ELSE Number(IF signed /\ t[1] = "-" THEN -mag ELSE mag)

to_numeric(cell) ==
    CASE cell.kind = "num"  -> Number(cell.num)
      [] cell.kind = "text" -> parse_decimal(cell.text)
      [] cell.kind = "null" -> NaN

\* pd.to_numeric(df['CBM'], errors='coerce').fillna(0.0)
clean_cbm(cell) ==
    LET x == to_numeric(cell) IN IF x.nan THEN 0 ELSE x.v

\* parse_qty, src/app.py:174-181
parse_qty(qty_str) ==
    IF qty_str = NULL THEN 1
    ELSE LET s     == Lower(Strip(qty_str))
             match == SearchDigits(s)
         IN  IF match # <<>> THEN IntOf(match) ELSE 1

fillna(x, default) == IF x = NULL THEN default ELSE x

\* The cell of column c: the columns absent from the header are created
\* holding None (src/app.py:161-163).
Cell(sh, row, c) == IF c \in sh.columns THEN row[c] ELSE Blank(c)

prepare_row(sh, row) ==
    [ CONTACT             |-> fillna(Cell(sh, row, "CONTACT"), UNKNOWN),
      CUSTOMER_NAME       |-> fillna(Cell(sh, row, "CUSTOMER NAME"), UNKNOWN),
      LOCATION            |-> fillna(Cell(sh, row, "LOCATION"), ACCRA_GHANA),
      TRACKING_NO         |-> Cell(sh, row, "TRACKING N0."),
      CBM                 |-> clean_cbm(Cell(sh, row, "CBM PER TRACKING")),
      PRODUCT_DESCRIPTION |-> Cell(sh, row, "PRODUCT DESCRIPTION"),
      INVOICE_NO          |-> Cell(sh, row, "INVOICE N0."),
      QTY                 |-> parse_qty(Cell(sh, row, "QTY PER TRACKING")),
      RECEIVING_DATE      |-> Cell(sh, row, "RECEIVING DATE") ]

\* df[df['TRACKING N0.'].notna()]
has_tracking(row) == row["TRACKING N0."] # NULL

load_and_prepare_rows(sh) ==
    LET kept == SelectSeq(sh.rows, has_tracking)
    IN  [i \in 1..Len(kept) |-> prepare_row(sh, kept[i])]

(***************************************************************************)
(* Python's round(x, ndigits) on volumes.  unit is 100 for two decimals    *)
(* and 10 for three.  A decimal tie is not an exact double: the result     *)
(* follows the side the nearest double lies on.  DoubleBelowTie lists the  *)
(* ties among the model's input volumes whose double lies below the tie    *)
(* (round(0.015, 2) == 0.01, while round(0.005, 2) == 0.01 rounds up).     *)
(***************************************************************************)
DoubleBelowTie == {150}

\* Rounding that drops the digits beyond the unit.
py_round_truncating(x, unit) ==
    LET a == IF x < 0 THEN -x ELSE x
        m == (a \div unit) * unit
    IN  IF x < 0 THEN -m ELSE m

py_round(x, unit) ==
    LET a  == IF x < 0 THEN -x ELSE x
        q  == a \div unit
        r  == a % unit
        up == IF 2 * r > unit THEN TRUE
              ELSE IF 2 * r < unit THEN FALSE
              ELSE a \notin DoubleBelowTie
        m  == IF up THEN (q + 1) * unit ELSE q * unit
    IN  IF x < 0 THEN -m ELSE m

(***************************************************************************)
(* Bill (src/app.py:84-108).  Money is counted in 0.000001 USD: the rate   *)
(* in cents per CBM times a volume in 0.0001 CBM.                          *)
(***************************************************************************)
\* A subtotal with a minimum charge of 10.00 USD below 0.05 CBM.
subtotal_usd_min_charge(b) ==
    IF b.total_cbm < 500 THEN 10000000 ELSE b.rate_usd_per_cbm * b.total_cbm

subtotal_usd(b) == b.rate_usd_per_cbm * b.total_cbm

min_charge_usd(b) == 0

total_usd(b) == subtotal_usd(b) + b.other_cost_usd

(***************************************************************************)
(* build_bills (src/app.py:190-278).                                       *)
(***************************************************************************)
NO_TRACKING  == <<"N", "O", "_", "T", "R", "A", "C", "K", "I", "N", "G">>
PERSONAL_USE == <<"P", "E", "R", "S", "O", "N", "A", "L", " ", "U", "S", "E">>

RECURSIVE SumSeq(_)
SumSeq(s) == IF s = <<>> THEN 0 ELSE s[1] + SumSeq(Tail(s))

\* Series.unique(): the distinct values in order of first appearance.
RECURSIVE Unique(_)
Unique(s) ==
    IF s = <<>> THEN <<>>
    ELSE LET rest == Unique(SubSeq(s, 1, Len(s) - 1))
             x    == s[Len(s)]
         IN  IF x \in Range(rest) THEN rest ELSE Append(rest, x)

\* sep.join(parts)
RECURSIVE Join(_, _)
Join(sep, parts) ==
    IF parts = <<>> THEN <<>>
    ELSE IF Len(parts) = 1 THEN parts[1]
    ELSE parts[1] \o sep \o Join(sep, Tail(parts))

\* Grouping by the customer name instead of the contact.
group_key_by_name(row) == row.CUSTOMER_NAME

\* The key of df.groupby('CONTACT', dropna=False)
group_key(row) == row.CONTACT

\* The keys in the order groupby iterates them: sorted ascending.
RECURSIVE SortedKeys(_)
SortedKeys(S) ==
    IF S = {} THEN <<>>
    ELSE LET m == CHOOSE x \in S : \A y \in S \ {x} : StrLess(x, y)
         IN  <<m>> \o SortedKeys(S \ {m})

group_rows(d, key) ==
    LET in_group(row) == group_key(row) = key IN SelectSeq(d, in_group)

\* One breakdown item per row of the group (src/app.py:228-237).
breakdown_item(row) ==
    [ tracking_number |-> IF row.TRACKING_NO # NULL THEN Strip(row.TRACKING_NO)
                          ELSE NO_TRACKING,
      quantity        |-> row.QTY,
      cbm             |-> py_round(row.CBM, 100) ]

make_bill(contact, g, rate_usd_per_cbm, other_cost_usd, location_default) ==
    LET names       == [i \in 1..Len(g) |-> g[i].CUSTOMER_NAME]
        name0       == IF (\E i \in 1..Len(g) : names[i] # NULL) /\ names[1] # UNKNOWN
                       THEN names[1] ELSE UNKNOWN
        valid_names == SelectSeq(Unique(names), LAMBDA x : x # UNKNOWN)
        customer_name == IF valid_names # <<>> THEN valid_names[1] ELSE name0
        locs        == [i \in 1..Len(g) |-> g[i].LOCATION]
        loc0        == IF \E i \in 1..Len(g) : locs[i] # NULL
                       THEN locs[1] ELSE location_default
        valid_locs  == SelectSeq(Unique(locs),
                                 LAMBDA x : x # ACCRA_GHANA /\ x # NULL)
        location    == IF valid_locs # <<>> THEN valid_locs[1]
                       ELSE IF loc0 = ACCRA_GHANA \/ loc0 = NULL THEN ACCRA_GHANA
                       ELSE loc0
        phone       == contact
        total_cbm   == SumSeq([i \in 1..Len(g) |-> g[i].CBM])
        breakdown_items == [i \in 1..Len(g) |-> breakdown_item(g[i])]
        descs       == [i \in 1..Len(g) |-> g[i].PRODUCT_DESCRIPTION]
        uniq_descs  == Unique(SelectSeq(descs, LAMBDA x : x # NULL))
        stripped    == [i \in 1..Len(uniq_descs) |-> Strip(uniq_descs[i])]
        product_descs == SelectSeq(stripped, LAMBDA x : x # <<>>)
        total_qty   == SumSeq([i \in 1..Len(g) |-> breakdown_items[i].quantity])
        unit        == IF total_qty = 1 THEN CARTON ELSE CARTON \o <<"S">>
        object      == IF Len(product_descs) = 1 THEN product_descs[1]
                       ELSE PERSONAL_USE
        item_desc   == StrOfInt(total_qty) \o <<" ">> \o unit
                         \o <<" ", "O", "F", " ">> \o object
        tracking_numbers == SelectSeq([i \in 1..Len(g) |-> g[i].TRACKING_NO],
                                      LAMBDA x : x # NULL)
        shipping_mark == IF tracking_numbers # <<>>
                         THEN Join(<<",", " ">>, tracking_numbers)
                         ELSE NO_TRACKING
    IN  [ shipping_mark    |-> shipping_mark,
          customer_id      |-> phone,
          customer_name    |-> customer_name,
          phone            |-> phone,
          location         |-> location,
          total_cbm        |-> py_round(total_cbm, 10),
          rate_usd_per_cbm |-> rate_usd_per_cbm,
          other_cost_usd   |-> other_cost_usd,
          item_description |-> item_desc,
          breakdown_items  |-> breakdown_items ]

\* b.customer_name or "", b.phone or ""
or_empty(s) == IF s = NULL THEN <<>> ELSE s

\* The sort key of line 277 compared as Python compares tuples.
bill_key_less(a, b) ==
    LET an == or_empty(a.customer_name)
        bn == or_empty(b.customer_name)
    IN  \/ StrLess(an, bn)
        \/ an = bn /\ StrLess(or_empty(a.phone), or_empty(b.phone))

\* list.sort(key=...): stable; an element goes before the first element
\* whose key is greater than its own.
RECURSIVE sort_bills(_)
sort_bills(bs) ==
    IF bs = <<>> THEN <<>>
    ELSE LET front == sort_bills(SubSeq(bs, 1, Len(bs) - 1))
             x     == bs[Len(bs)]
             after == {i \in 1..Len(front) : bill_key_less(x, front[i])}
             at    == IF after = {} THEN Len(front) + 1 ELSE SetMin(after)
         IN  SubSeq(front, 1, at - 1) \o <<x>> \o SubSeq(front, at, Len(front))

\* The bills left in the order the groups were iterated.
finish_unsorted(bs) == bs

\* bills.sort(key=lambda b: (b.customer_name or "", b.phone or ""))
finish(bs) == sort_bills(bs)

build_bills(d, rate_usd_per_cbm, other_cost_usd, location_default) ==
    LET keys == SortedKeys({group_key(d[i]) : i \in 1..Len(d)})
        made == [k \in 1..Len(keys) |->
                    make_bill(keys[k], group_rows(d, keys[k]),
                              rate_usd_per_cbm, other_cost_usd, location_default)]
    IN  finish(made)

(***************************************************************************)
(* The callers' parameters: rate (cents per CBM), other cost (0.000001     *)
(* USD) and the default location.  240/0 are the GUI defaults              *)
(* (src/app.py:378-380) and the values of src/verify_new_format.py:17;     *)
(* 235 is the rate of src/test_changes.py:29.  The third caller passes a   *)
(* location_default of its own (src/app.py:193).                           *)
(***************************************************************************)
Params ==
    { [rate |-> 24000, other |-> 0,       location_default |-> ACCRA_GHANA],
      [rate |-> 23500, other |-> 5000000, location_default |-> ACCRA_GHANA],
      [rate |-> 23500, other |-> 0,       location_default |-> KUMASI] }

(***************************************************************************)
(* The texts given to parse_item_description: up to MaxTokens tokens.      *)
(***************************************************************************)
Tokens ==
    { <<"1">>, <<"2">>, <<"4">>, <<"0">>, <<" ">>, <<"x">>,
      kw_pallet, <<"P", "a", "l", "l", "e", "t", "s">>, kw_carton, kw_boxes }

RECURSIVE TextsOf(_)
TextsOf(n) ==
    IF n = 0 THEN {<<>>}
    ELSE LET shorter == TextsOf(n - 1)
         IN  shorter \cup {t \o k : t \in shorter, k \in Tokens}

Texts == TextsOf(MaxTokens)

(***************************************************************************)
(* safe_filename (src/app.py:25-29).                                       *)
(***************************************************************************)
\* The characters of the class [\\/:*?"<>|].
Forbidden == {"\\", "/", ":", "*", "?", "\"", "<", ">", "|"}

\* The longest name kept.
MaxFilename == 180

\* s without its leading characters of the class C.
RECURSIVE drop_run(_, _)
drop_run(s, C) ==
    IF s # <<>> /\ s[1] \in C THEN drop_run(Tail(s), C) ELSE s

\* re.sub(r'[C]+', " ", s): every maximal run of characters of C becomes
\* one space.
RECURSIVE sub_runs(_, _)
sub_runs(s, C) ==
    IF s = <<>> THEN <<>>
    ELSE IF s[1] \in C THEN <<" ">> \o sub_runs(drop_run(s, C), C)
    ELSE <<s[1]>> \o sub_runs(Tail(s), C)

safe_filename(s) ==
    LET s0 == Strip(or_empty(s))
        s1 == sub_runs(s0, Forbidden)
        s2 == Strip(sub_runs(s1, Whitespace))
    IN  IF Len(s2) > MaxFilename THEN SubSeq(s2, 1, MaxFilename) ELSE s2

NO_PHONE == <<"N", "O", "_", "P", "H", "O", "N", "E">>

\* x or y, for a Python str x
str_or(x, y) == IF x = <<>> THEN y ELSE x

\* f"CUSTOMER - {name_part} - {phone_part}.pdf" (src/app.py:491-496)
pdf_name(b) ==
    LET name_part  == str_or(safe_filename(b.customer_name), UNKNOWN)
        phone_part == str_or(safe_filename(b.phone), NO_PHONE)
    IN  <<"C", "U", "S", "T", "O", "M", "E", "R", " ", "-", " ">>
          \o name_part \o <<" ", "-", " ">> \o phone_part
          \o <<".", "p", "d", "f">>

(***************************************************************************)
(* App.generate (src/app.py:447-508).                                      *)
(***************************************************************************)
\* float(s.strip()) for the decimal texts of the model; NaN stands for the
\* ValueError.  The value counts 0.0001.
float_of(s) == parse_decimal(Strip(s))

\* self.other_cost_var.get().strip() or "0"
other_cost_text(s) == str_or(Strip(s), <<"0">>)

\* The rate in cents and the other cost in 0.000001 USD.
rate_of(s) == float_of(s).v \div 100
other_cost_of(s) == float_of(other_cost_text(s)).v * 100

\* The contents of the two entry fields: the defaults (src/app.py:378-380),
\* 235 and 5, padded and empty texts, and texts that are no numbers.
GuiFields ==
    { [rate_var |-> <<"2", "4", "0">>, other_cost_var |-> <<"0">>],
      [rate_var |-> <<"2", "3", "5">>, other_cost_var |-> <<"5">>],
      [rate_var |-> <<" ", "2", "4", "0", " ">>, other_cost_var |-> <<>>],
      [rate_var |-> <<"a", "b", "c">>, other_cost_var |-> <<"0">>],
      [rate_var |-> <<"2", "4", "0">>, other_cost_var |-> <<"x">>] }

\* Rows of the fixture's second customer whose contact cell was typed with a
\* trailing space or a trailing slash.
ContactRows ==
    { [FixtureRow3 EXCEPT !["CONTACT"] = Contact540 \o <<" ">>],
      [FixtureRow3 EXCEPT !["CONTACT"] = Contact540 \o <<"/">>] }

\* The sheets given to a run of generate.
GenerateSheets ==
    { [columns |-> AllColumns, rows |-> rs] :
        rs \in RowSeqs(Range(FixtureRows) \cup ContactRows) }

NoMessage == [title |-> "", text |-> "", generated |-> 0]
showerror(t) == [title |-> "Error", text |-> t, generated |-> 0]
showinfo(n) ==
    [title |-> "Done", text |-> "Generated PDFs + WhatsApp CSV + Summary.xlsx",
     generated |-> n]

\* The window as constructed, no run started.
GuiAtRest ==
    /\ rate_var = <<"2", "4", "0">>
    /\ other_cost_var = <<"0">>
    /\ idx = 0
    /\ pdf_dir = {}
    /\ run_dir = {}
    /\ message = NoMessage

\* How the writing of one file ends: "written", the file is complete;
\* "refused", an exception is raised before the file is created (folder
\* creation, opening, rendering); "cut", the file is created and an
\* exception is raised while its bytes are written or flushed, so that the
\* file stays behind.
WriteOutcomes == {"written", "refused", "cut"}

\* write_pdf(out_path) by the bill at position k: a file of that name is
\* created, or replaced when there is one.
write_pdf(dir, name, k) ==
    {f \in dir : f.name # name} \cup {[name |-> name, bill |-> k]}

(***************************************************************************)
(* The pipeline as a state machine.                                        *)
(*   pc = "start":   the sheet is given, nothing is loaded                 *)
(*   pc = "loaded":  df holds the prepared rows                            *)
(*   pc = "built":   bills holds the list returned by build_bills          *)
(*   pc = "KeyError": load_and_prepare_rows raised (src/app.py:133)        *)
(***************************************************************************)
Init ==
    /\ sheet \in {sh \in Sheets : WellFormedSheet(sh)}
    /\ df = <<>>
    /\ bills = <<>>
    /\ pc = "start"
    /\ text = <<>>
    /\ result = <<>>
    /\ GuiAtRest

LoadAndPrepareRows ==
    /\ pc = "start"
    /\ IF "TRACKING N0." \in sheet.columns
       THEN /\ df' = load_and_prepare_rows(sheet)
            /\ pc' = "loaded"
       ELSE /\ df' = df
            /\ pc' = "KeyError"
    /\ UNCHANGED <<sheet, bills, text, result, gui>>

BuildBills ==
    /\ pc = "loaded"
    /\ \E p \in Params :
          bills' = build_bills(df, p.rate, p.other, p.location_default)
    /\ pc' = "built"
    /\ UNCHANGED <<sheet, df, text, result, gui>>

Next == LoadAndPrepareRows \/ BuildBills

Spec == Init /\ [][Next]_vars

(***************************************************************************)
(* The parser on its own: a text is given, parse_item_description returns. *)
(***************************************************************************)
InitParse ==
    /\ sheet = [columns |-> AllColumns, rows |-> <<>>]
    /\ df = <<>>
    /\ bills = <<>>
    /\ pc = "parse"
    /\ text \in Texts
    /\ result = <<>>
    /\ GuiAtRest

ParseItemDescription ==
    /\ pc = "parse"
    /\ result' = parse_item_description(text)
    /\ pc' = "parsed"
    /\ UNCHANGED <<sheet, df, bills, text, gui>>

NextParse == ParseItemDescription

SpecParse == InitParse /\ [][NextParse]_vars

(***************************************************************************)
(* A run of App.generate.                                                  *)
(*   pc = "generate": the button was pressed                               *)
(*   pc = "returned": generate showed an error box and returned            *)
(*   pc = "start", "loaded": as above                                      *)
(*   pc = "render":  the loop over the bills, idx the next bill            *)
(*   pc = "summary": the WhatsApp CSV is written                           *)
(*   pc = "done":    the completion box is shown                           *)
(*   pc = "raised":  an exception left generate (no handler encloses the   *)
(*                   rendering loop or the exports); a file whose writing  *)
(*                   was cut short is in the run folder                    *)
(***************************************************************************)
InitGenerate ==
    /\ sheet \in GenerateSheets
    /\ df = <<>>
    /\ bills = <<>>
    /\ pc = "generate"
    /\ text = <<>>
    /\ result = <<>>
    /\ \E f \in GuiFields :
          /\ rate_var = f.rate_var
          /\ other_cost_var = f.other_cost_var
    /\ idx = 0
    /\ pdf_dir = {}
    /\ run_dir = {}
    /\ message = NoMessage

\* src/app.py:448-471: the checks made before anything is read or written.
GenerateValidate ==
    /\ pc = "generate"
    /\ \E excel_exists, out_dir_exists, template_readable \in BOOLEAN :
          IF ~excel_exists
            THEN /\ message' = showerror("Please select a valid Excel file.")
                 /\ pc' = "returned"
          ELSE IF ~out_dir_exists
            THEN /\ message' = showerror("Please choose a valid output folder.")
                 /\ pc' = "returned"
          ELSE IF float_of(rate_var).nan \/ float_of(other_cost_text(other_cost_var)).nan
            THEN /\ message' = showerror("Rate/Other cost must be valid numbers.")
                 /\ pc' = "returned"
          ELSE IF ~template_readable
            THEN /\ message' = showerror("Missing template_invoice.html (must be in same folder as app.py).")
                 /\ pc' = "returned"
          ELSE /\ message' = message
               /\ pc' = "start"
    /\ UNCHANGED <<sheet, df, bills, text, result,
                   rate_var, other_cost_var, idx, pdf_dir, run_dir>>

\* src/app.py:477-485: build_bills with the fields' values and the default
\* location of its signature; the loop starts at the first bill.
GenerateBuildBills ==
    /\ pc = "loaded"
    /\ bills' = build_bills(df, rate_of(rate_var), other_cost_of(other_cost_var),
                            ACCRA_GHANA)
    /\ idx' = 1
    /\ pc' = "render"
    /\ UNCHANGED <<sheet, df, text, result,
                   rate_var, other_cost_var, pdf_dir, run_dir, message>>

\* src/app.py:487-502, one turn of the loop: the bill is rendered and its
\* PDF written, or render_pdf_for_bill raises (template, folder or disk)
\* before or after the file is created.
GenerateRenderPdf ==
    /\ pc = "render"
    /\ idx <= Len(bills)
    /\ \E outcome \in WriteOutcomes :
          /\ pdf_dir' = IF outcome = "refused" THEN pdf_dir
                        ELSE write_pdf(pdf_dir, pdf_name(bills[idx]), idx)
          /\ idx' = IF outcome = "written" THEN idx + 1 ELSE idx
          /\ pc' = IF outcome = "written" THEN pc ELSE "raised"
    /\ UNCHANGED <<sheet, df, bills, text, result,
                   rate_var, other_cost_var, run_dir, message>>

\* src/app.py:504 and 353-359: export_whatsapp_csv after the last bill;
\* open(out_csv, "w") creates the file before any row is written.
GenerateExportWhatsappCsv ==
    /\ pc = "render"
    /\ idx > Len(bills)
    /\ \E outcome \in WriteOutcomes :
          /\ run_dir' = IF outcome = "refused" THEN run_dir
                        ELSE run_dir \cup {"WhatsApp_Messages.csv"}
          /\ pc' = IF outcome = "written" THEN "summary" ELSE "raised"
    /\ UNCHANGED <<sheet, df, bills, text, result,
                   rate_var, other_cost_var, idx, pdf_dir, message>>

\* src/app.py:505-508 and 332-349: export_summary_xlsx, then the
\* completion box.
GenerateExportSummaryXlsx ==
    /\ pc = "summary"
    /\ \E outcome \in WriteOutcomes :
          /\ run_dir' = IF outcome = "refused" THEN run_dir
                        ELSE run_dir \cup {"Summary.xlsx"}
          /\ message' = IF outcome = "written" THEN showinfo(Len(bills)) ELSE message
          /\ pc' = IF outcome = "written" THEN "done" ELSE "raised"
    /\ UNCHANGED <<sheet, df, bills, text, result,
                   rate_var, other_cost_var, idx, pdf_dir>>

NextGenerate ==
    \/ GenerateValidate
    \/ LoadAndPrepareRows
    \/ GenerateBuildBills
    \/ GenerateRenderPdf
    \/ GenerateExportWhatsappCsv
    \/ GenerateExportSummaryXlsx

SpecGenerate == InitGenerate /\ [][NextGenerate]_vars

(***************************************************************************)
(* Helpers of the properties.                                              *)
(***************************************************************************)
Built == pc = "built"

\* The sheet rows that survive the tracking-number filter, in order.
Surviving == SelectSeq(sheet.rows, has_tracking)

\* The rows of df whose CONTACT is the phone of bill b.
RowsOf(b) == SelectSeq(df, LAMBDA row : row.CONTACT = b.phone)

Abs(x) == IF x < 0 THEN -x ELSE x

ItemVolumeSum(b) ==
    SumSeq([i \in 1..Len(b.breakdown_items) |-> b.breakdown_items[i].cbm])

\* (C1) Grouping is a partition of the surviving rows by CONTACT: df holds
\* exactly the rows with a tracking number; there is one bill per distinct
\* CONTACT, no two bills have the same phone, every row's CONTACT is the
\* phone of a bill, and a bill's breakdown lists, in row order, exactly the
\* rows with its phone, whatever their tracking numbers; so the items of
\* all bills count every surviving row once.
C1_GroupingIsPartition ==
    Built =>
      /\ Len(df) = Len(Surviving)
      /\ Len(bills) = Cardinality({df[i].CONTACT : i \in 1..Len(df)})
      /\ \A i, j \in 1..Len(bills) : bills[i].phone = bills[j].phone => i = j
      /\ \A i \in 1..Len(df) : \E k \in 1..Len(bills) : bills[k].phone = df[i].CONTACT
      /\ \A k \in 1..Len(bills) :
            LET g == RowsOf(bills[k])
                items == bills[k].breakdown_items
            IN  /\ Len(items) = Len(g)
                /\ \A n \in 1..Len(g) :
                      /\ items[n].tracking_number = Strip(g[n].TRACKING_NO)
                      /\ items[n].quantity = g[n].QTY
      /\ SumSeq([k \in 1..Len(bills) |-> Len(bills[k].breakdown_items)]) = Len(df)

\* Two bills were built and one of them holds two rows with different
\* tracking numbers.
C1_Witness ==
    /\ Built
    /\ Len(bills) >= 2
    /\ \E k \in 1..Len(bills) :
          /\ Len(bills[k].breakdown_items) = 2
          /\ bills[k].breakdown_items[1].tracking_number
               # bills[k].breakdown_items[2].tracking_number

\* The group key as the claim computes it from a sheet row: the contact,
\* else the customer name, else (no raw customer id exists in this layout)
\* the literal UNKNOWN.
ClaimedKey(row) ==
    IF row["CONTACT"] # NULL /\ row["CONTACT"] # <<>> THEN row["CONTACT"]
    ELSE IF row["CUSTOMER NAME"] # NULL /\ row["CUSTOMER NAME"] # <<>>
         THEN row["CUSTOMER NAME"]
    ELSE UNKNOWN

\* (C2) The group key is the ordered fallback contact -> customer name ->
\* raw id -> "UNKNOWN": there is one bill per distinct fallback key, and two
\* surviving rows without a contact and with different customer names are
\* in different bills (no bill's shipping mark lists both).
C2_GroupKeyFallback ==
    Built =>
      /\ Len(bills) = Cardinality({ClaimedKey(Surviving[i]) : i \in 1..Len(Surviving)})
      /\ \A i, j \in 1..Len(Surviving) :
            ( /\ Surviving[i]["CONTACT"] = NULL
              /\ Surviving[j]["CONTACT"] = NULL
              /\ ClaimedKey(Surviving[i]) # ClaimedKey(Surviving[j]) )
            => ~ \E k \in 1..Len(bills) :
                    /\ Contains(bills[k].shipping_mark, Surviving[i]["TRACKING N0."])
                    /\ Contains(bills[k].shipping_mark, Surviving[j]["TRACKING N0."])

\* (C3, as claimed) For every bill the sum of the items' volumes differs
\* from total_cbm by at most 0.01, whatever the number of rows.
C3_ToleranceOneCent ==
    Built => \A k \in 1..Len(bills) :
                Abs(ItemVolumeSum(bills[k]) - bills[k].total_cbm) <= 100

\* (C3, amended) For every bill of n rows the sum of the items' volumes
\* (each rounded to 2 decimals) differs from total_cbm (the sum rounded to 3
\* decimals) by at most 0.005 * n + 0.0005.
C3_TolerancePerRow ==
    Built => \A k \in 1..Len(bills) :
                Abs(ItemVolumeSum(bills[k]) - bills[k].total_cbm)
                  <= 50 * Len(bills[k].breakdown_items) + 5

\* A bill of three rows whose items' sum is more than 0.01 away from total_cbm.
C3_Witness ==
    /\ Built
    /\ \E k \in 1..Len(bills) :
          /\ Len(bills[k].breakdown_items) = 3
          /\ Abs(ItemVolumeSum(bills[k]) - bills[k].total_cbm) > 100

\* (C4) A bill holds exactly one breakdown item per distinct tracking number
\* of its group; an item's volume and quantity are the sums over the rows
\* carrying its tracking number.
C4_OneItemPerTracking ==
    Built => \A k \in 1..Len(bills) :
        LET items == bills[k].breakdown_items
            g     == RowsOf(bills[k])
            of(t) == SelectSeq(g, LAMBDA row : Strip(row.TRACKING_NO) = t)
        IN  /\ \A m, n \in 1..Len(items) :
                  items[m].tracking_number = items[n].tracking_number => m = n
            /\ \A n \in 1..Len(items) :
                  LET rows == of(items[n].tracking_number)
                  IN  /\ items[n].cbm =
                           py_round(SumSeq([i \in 1..Len(rows) |-> rows[i].CBM]), 100)
                      /\ items[n].quantity =
                           SumSeq([i \in 1..Len(rows) |-> rows[i].QTY])

\* (C5) After load_and_prepare_rows every row's volume is >= 0, and so is
\* every bill's total_cbm.
C5_VolumeNonNegative ==
    /\ pc \in {"loaded", "built"} => \A i \in 1..Len(df) : df[i].CBM >= 0
    /\ Built => \A k \in 1..Len(bills) : bills[k].total_cbm >= 0

\* (C6) Pricing has no threshold: with the caller's rate and other cost,
\* every bill has subtotal_usd = rate * total_cbm, min_charge_usd = 0 and
\* total_usd = subtotal_usd + other cost, also below 0.05 CBM.
C6_PricingNoMinimum ==
    Built => \E p \in Params : \A k \in 1..Len(bills) :
        /\ bills[k].rate_usd_per_cbm = p.rate
        /\ bills[k].other_cost_usd = p.other
        /\ subtotal_usd(bills[k]) = p.rate * bills[k].total_cbm
        /\ min_charge_usd(bills[k]) = 0
        /\ total_usd(bills[k]) = p.rate * bills[k].total_cbm + p.other

\* A bill below 0.05 CBM priced with a non-zero other cost.
C6_Witness ==
    /\ Built
    /\ \E k \in 1..Len(bills) :
          /\ bills[k].total_cbm > 0
          /\ bills[k].total_cbm < 500
          /\ bills[k].other_cost_usd > 0
          /\ total_usd(bills[k]) =
               bills[k].rate_usd_per_cbm * bills[k].total_cbm + bills[k].other_cost_usd

\* (C7) total_usd is a whole number of dollars, the charge rounded up to
\* the next dollar; a bill of 0.01 CBM at rate 240 with no other cost has
\* subtotal_usd = total_usd = 3.00 (src/test_cbm_logic.py:21-35).
C7_TotalWholeDollars ==
    Built => \A k \in 1..Len(bills) :
        LET b      == bills[k]
            charge == b.rate_usd_per_cbm * b.total_cbm + b.other_cost_usd
        IN  /\ total_usd(b) % 1000000 = 0
            /\ total_usd(b) >= charge
            /\ total_usd(b) < charge + 1000000
            /\ (b.rate_usd_per_cbm = 24000 /\ b.total_cbm = 100 /\ b.other_cost_usd = 0)
                 => (subtotal_usd(b) = 3000000 /\ total_usd(b) = 3000000)

\* The sheet of src/create_test_excel_new_format.py.
IsFixture == sheet = [columns |-> AllColumns, rows |-> FixtureRows]

\* (C8, as claimed) The fixture gives 2 bills and the second bill of the
\* list has total_cbm 0.56 and 2 breakdown items.
C8_FixtureSecondBill ==
    (Built /\ IsFixture) =>
      /\ Len(bills) = 2
      /\ bills[2].total_cbm = 5600
      /\ Len(bills[2].breakdown_items) = 2

\* (C8, amended) The fixture gives 2 bills; the first bill of the list is
\* Christian's (phone 540789320) with total_cbm 0.56 and 2 breakdown items,
\* the second is Tilly's (phone 201698812) with total_cbm 0.18 and 1 item.
C8_FixtureBills ==
    (Built /\ IsFixture) =>
      /\ Len(bills) = 2
      /\ bills[1].customer_name = Christian
      /\ bills[1].phone = Contact540
      /\ bills[1].total_cbm = 5600
      /\ Len(bills[1].breakdown_items) = 2
      /\ bills[2].customer_name = Tilly
      /\ bills[2].phone = Contact201
      /\ bills[2].total_cbm = 1800
      /\ Len(bills[2].breakdown_items) = 1

\* The bills of the fixture have been built.
C8_Witness == Built /\ IsFixture /\ Len(bills) = 2

\* (C9) The returned list is strictly ascending in the pair
\* (customer_name, phone) under case-sensitive code-point order: of any two
\* bills the one with the smaller name, or with the same name and the
\* smaller phone, comes first, so the keys alone fix the order.
C9_SortedByNameThenPhone ==
    Built => \A i, j \in 1..Len(bills) :
        i < j =>
          \/ StrLessCase(bills[i].customer_name, bills[j].customer_name)
          \/ /\ bills[i].customer_name = bills[j].customer_name
             /\ StrLessCase(bills[i].phone, bills[j].phone)

\* Three bills, two of them with the same customer name and different
\* phones, and a name starting in lower case after one in upper case.
C9_Witness ==
    /\ Built
    /\ \E i, j \in 1..Len(bills) :
          i < j /\ bills[i].customer_name = bills[j].customer_name
    /\ \E i, j \in 1..Len(bills) :
          /\ i < j
          /\ bills[i].customer_name[1] \in Range(UpperSeq)
          /\ bills[j].customer_name[1] \in Range(LowerSeq)

\* The quantity and the unit word as the claim states them, on the text
\* itself (case folded letter by letter).
HasWord(t, w) ==
    \E i \in 1..(Len(t) - Len(w) + 1) : Lower(SubSeq(t, i, i + Len(w) - 1)) = w

FirstRunValue(t) ==
    IF \A i \in 1..Len(t) : ~IsDigit(t[i]) THEN 1
    ELSE LET i == CHOOSE a \in 1..Len(t) :
                     IsDigit(t[a]) /\ \A k \in 1..(a - 1) : ~IsDigit(t[k])
             j == CHOOSE b \in i..Len(t) :
                     /\ \A k \in i..b : IsDigit(t[k])
                     /\ (b = Len(t) \/ ~IsDigit(t[b + 1]))
         IN  IntOf(SubSeq(t, i, j))

ClaimedUnit(t) ==
    LET one == FirstRunValue(t) = 1
    IN  IF HasWord(t, kw_pallet)
          THEN (IF one THEN <<"P", "A", "L", "L", "E", "T">>
                ELSE <<"P", "A", "L", "L", "E", "T", "S">>)
        ELSE IF HasWord(t, kw_carton)
          THEN (IF one THEN <<"C", "A", "R", "T", "O", "N">>
                ELSE <<"C", "A", "R", "T", "O", "N", "S">>)
        ELSE IF HasWord(t, kw_box)
          THEN (IF one THEN <<"B", "O", "X">> ELSE <<"B", "O", "X", "E", "S">>)
        ELSE (IF one THEN <<"C", "A", "R", "T", "O", "N">>
              ELSE <<"C", "A", "R", "T", "O", "N", "S">>)

\* (C10) parse_item_description returns "<quantity> <unit>", the quantity
\* being the value of the first run of digits (1 without a digit), the unit
\* chosen pallet, then carton, then box, else carton, without regard to
\* case, singular exactly when the quantity is 1.  "1pallet" gives
\* "1 PALLET", "4" gives "4 CARTONS", "2 boxes" gives "2 BOXES" and the
\* empty text gives "1 CARTON".
C10_ParseItemDescription ==
    pc = "parsed" =>
      /\ result = StrOfInt(FirstRunValue(text)) \o <<" ">> \o ClaimedUnit(text)
      /\ text = <<"1", "p", "a", "l", "l", "e", "t">>
           => result = <<"1", " ", "P", "A", "L", "L", "E", "T">>
      /\ text = <<"4">>
           => result = <<"4", " ", "C", "A", "R", "T", "O", "N", "S">>
      /\ text = <<"2", " ", "b", "o", "x", "e", "s">>
           => result = <<"2", " ", "B", "O", "X", "E", "S">>
      /\ text = <<>>
           => result = <<"1", " ", "C", "A", "R", "T", "O", "N">>

\* A text naming a carton and a pallet, in upper and lower case, with a
\* quantity other than 1, has been parsed.
C10_Witness ==
    /\ pc = "parsed"
    /\ text = <<"2">> \o kw_carton \o <<"P", "a", "l", "l", "e", "t", "s">>
    /\ result = <<"2", " ", "P", "A", "L", "L", "E", "T", "S">>

\* (C11) load_and_prepare_rows never raises because a column is absent from
\* the header: whatever columns are missing, the call returns, and every
\* returned row carries the default of each missing column (contact
\* "UNKNOWN", name "UNKNOWN", location "ACCRA GHANA", volume 0, quantity 1).
C11_MissingColumnsDegrade ==
    /\ pc # "KeyError"
    /\ pc \in {"loaded", "built"} =>
         \A i \in 1..Len(df) :
            /\ "CONTACT" \notin sheet.columns => df[i].CONTACT = UNKNOWN
            /\ "CUSTOMER NAME" \notin sheet.columns => df[i].CUSTOMER_NAME = UNKNOWN
            /\ "LOCATION" \notin sheet.columns => df[i].LOCATION = ACCRA_GHANA
            /\ "CBM PER TRACKING" \notin sheet.columns => df[i].CBM = 0
            /\ "QTY PER TRACKING" \notin sheet.columns => df[i].QTY = 1

\* A run of generate has ended in an error: an error box was shown and
\* generate returned, or an exception left it.
RunFailed == pc \in {"returned", "raised", "KeyError"}

\* (C12) A run of generate fully succeeds or fully fails: when a run ends in
\* an error, nothing of the run folder exists (no PDF, no WhatsApp CSV, no
\* Summary.xlsx), so a failure at the k-th bill leaves none of the first
\* k-1 PDFs behind; an error found by the checks is shown in an error box.
C12_AllOrNothing ==
    RunFailed =>
      /\ pdf_dir = {}
      /\ run_dir = {}
      /\ pc = "returned" => message.title = "Error"

\* The distinct non-empty description texts of a group, compared after
\* trimming.
TrimmedDescriptions(g) ==
    {Strip(g[i].PRODUCT_DESCRIPTION) :
        i \in {j \in 1..Len(g) : g[j].PRODUCT_DESCRIPTION # NULL}} \ {<<>>}

\* (C13) Every bill's item_description is "<N> <CARTON|CARTONS> OF
\* <object>": N is the sum of the quantities of the bill's breakdown items,
\* the unit is CARTON exactly when N = 1, and the object is the description
\* text when the group's rows carry exactly one distinct non-empty
\* description text, texts being compared after trimming, and "PERSONAL
\* USE" when they carry none or more than one.
C13_ItemDescription ==
    Built => \A k \in 1..Len(bills) :
        LET b     == bills[k]
            N     == SumSeq([i \in 1..Len(b.breakdown_items) |->
                                b.breakdown_items[i].quantity])
            unit  == IF N = 1 THEN CARTON ELSE CARTON \o <<"S">>
            texts == TrimmedDescriptions(RowsOf(b))
            obj   == IF Cardinality(texts) = 1 THEN CHOOSE t \in texts : TRUE
                     ELSE PERSONAL_USE
        IN  b.item_description =
              StrOfInt(N) \o <<" ">> \o unit \o <<" ", "O", "F", " ">> \o obj

\* The first value of a sequence that is neither the default nor empty,
\* else the fallback.
FirstValueOr(values, default, fallback) ==
    LET ok == {i \in 1..Len(values) : values[i] \notin {default, <<>>, NULL}}
    IN  IF ok = {} THEN fallback ELSE values[SetMin(ok)]

\* (C14) Every bill's customer_name and location are the first value of the
\* group's rows, in row order, that is neither the default ("UNKNOWN",
\* "ACCRA GHANA") nor empty; when no row carries one the name is "UNKNOWN"
\* and the location is the caller's default location.
C14_FirstNonDefault ==
    Built => \E p \in Params : \A k \in 1..Len(bills) :
        LET b == bills[k]
            g == RowsOf(b)
        IN  /\ b.rate_usd_per_cbm = p.rate
            /\ b.other_cost_usd = p.other
            /\ b.customer_name =
                 FirstValueOr([i \in 1..Len(g) |-> g[i].CUSTOMER_NAME], UNKNOWN, UNKNOWN)
            /\ b.location =
                 FirstValueOr([i \in 1..Len(g) |-> g[i].LOCATION], ACCRA_GHANA,
                              p.location_default)

\* (C15) In a run of generate that succeeded every bill has a PDF of its
\* own: no two bills have the same file name "CUSTOMER - <safe name> -
\* <safe phone>.pdf", every bill's PDF is in the PDFs folder as that bill
\* wrote it, and the number of files in the folder is the number of PDFs
\* the completion message reports.
C15_OnePdfPerBill ==
    pc = "done" =>
      /\ \A i, j \in 1..Len(bills) :
            pdf_name(bills[i]) = pdf_name(bills[j]) => i = j
      /\ \A k \in 1..Len(bills) :
            [name |-> pdf_name(bills[k]), bill |-> k] \in pdf_dir
      /\ Cardinality(pdf_dir) = message.generated

====
